---- MODULE Spec2Model ----
(***************************************************************************)
(* Model of nncf/quantization/advanced_parameters.py: the parameter        *)
(* dataclasses, changes_asdict, convert_to_dict_recursively and the three  *)
(* converters to the legacy dictionary format.                             *)
(*                                                                         *)
(* A Python value is a record [t |-> <type name>, v |-> <payload>].  A     *)
(* dataclass instance has its class name as t and the record of its fields *)
(* as v; a dict is a function from key strings to values; a float is       *)
(* counted in ten-thousandths (1e-4 is 1, 0.01 is 100, 1.0 is 10000).      *)
(* The outcome of a call is a record [status, exc, msg, value]: either a   *)
(* returned value or a raised exception with no value.                     *)
(***************************************************************************)
EXTENDS Integers, Sequences, FiniteSets, TLC

VARIABLES params, called, ret, overrides

vars == <<params, called, ret, overrides>>

----------------------------------------------------------------------------
(* Python values *)

None == [t |-> "None", v |-> 0]
PyBool(b) == [t |-> "bool", v |-> b]
PyInt(n) == [t |-> "int", v |-> n]
PyFloat(n) == [t |-> "float", v |-> n]
PyStr(s) == [t |-> "str", v |-> s]
PyDict(d) == [t |-> "dict", v |-> d]
PyList(s) == [t |-> "list", v |-> s]
Member(cls, name) == [t |-> cls, v |-> name]
Instance(cls, flds) == [t |-> cls, v |-> flds]

EmptyDict == <<>>

\* d[k] = x on a dict: the key is added or its value replaced
SetItem(d, k, x) == (k :> x) @@ d

\* truth value of a dict: non-empty
Truthy(d) == DOMAIN d # {}

\* sys.maxsize, kept symbolic
SysMaxsize == [t |-> "int", v |-> -1]

----------------------------------------------------------------------------
(* Outcomes of a call *)

NoValue == [t |-> "NoValue", v |-> 0]
NoCall == [status |-> "none", exc |-> "", msg |-> "", value |-> NoValue]
Returned(x) == [status |-> "returned", exc |-> "", msg |-> "", value |-> x]
Raised(e, m) == [status |-> "raised", exc |-> e, msg |-> m, value |-> NoValue]

----------------------------------------------------------------------------
(* Enumerations *)

OverflowFix == {"ENABLE", "FIRST_LAYER", "DISABLE"}
StatisticsType == {"MIN", "MAX", "QUANTILE"}
AggregatorType == {"MIN", "MAX", "MEAN"}
QuantizationMode == {PyStr("symmetric"), PyStr("asymmetric")}

EnumClasses == {"OverflowFix", "StatisticsType", "AggregatorType"}

\* OverflowFix.<member>.value
OverflowFixValue(name) ==
    CASE name = "ENABLE" -> PyStr("enable")
      [] name = "FIRST_LAYER" -> PyStr("first_layer_only")
      [] name = "DISABLE" -> PyStr("disable")

\* StatisticsType.<member>.value and AggregatorType.<member>.value
KindValue(name) ==
    CASE name = "MIN" -> PyStr("min")
      [] name = "MAX" -> PyStr("max")
      [] name = "QUANTILE" -> PyStr("quantile")
      [] name = "MEAN" -> PyStr("mean")

\* member.value
EnumValue(m) == IF m.t = "OverflowFix" THEN OverflowFixValue(m.v) ELSE KindValue(m.v)

\* isinstance(value, Enum)
IsEnum(x) == x.t \in EnumClasses

----------------------------------------------------------------------------
(* Dataclasses *)

DataclassNames == {"QuantizationParameters", "AdvancedBiasCorrectionParameters",
                   "AdvancedQuantizationParameters",
                   "AdvancedAccuracyRestorerParameters",
                   "RangeEstimatorParameters", "StatisticsCollectorParameters"}

\* is_dataclass(value)
IsDataclass(x) == x.t \in DataclassNames

\* fields(params): the declared field names, in declaration order
Fields(cls) ==
    CASE cls = "QuantizationParameters" ->
           <<"num_bits", "mode", "signedness_to_force", "per_channel", "narrow_range">>
      [] cls = "AdvancedBiasCorrectionParameters" ->
           <<"apply_for_all_nodes", "threshold">>
      [] cls = "AdvancedQuantizationParameters" ->
           <<"overflow_fix", "quantize_outputs", "inplace_statistics",
             "disable_bias_correction", "activations_quantization_params",
             "weights_quantization_params", "activations_range_estimator_params",
             "weights_range_estimator_params", "bias_correction_params",
             "backend_params">>
      [] cls = "AdvancedAccuracyRestorerParameters" ->
           <<"max_num_iterations", "tune_hyperparams", "convert_to_mixed_preset",
             "ranking_subset_size">>
      [] cls = "RangeEstimatorParameters" -> <<"min", "max">>
      [] cls = "StatisticsCollectorParameters" ->
           <<"statistics_type", "aggregator_type", "clipping_value",
             "quantile_outlier_prob">>

FieldSet(cls) == {Fields(cls)[i] : i \in 1..Len(Fields(cls))}

\* hasattr(obj, name)
HasAttr(obj, name) == name \in DOMAIN obj.v

\* getattr(obj, name) where the attribute exists
GetAttr(obj, name) == obj.v[name]

QuantizationParameters(nb, md, sg, pc, nr) ==
    Instance("QuantizationParameters",
             [num_bits |-> nb, mode |-> md, signedness_to_force |-> sg,
              per_channel |-> pc, narrow_range |-> nr])

AdvancedBiasCorrectionParameters(afa, th) ==
    Instance("AdvancedBiasCorrectionParameters",
             [apply_for_all_nodes |-> afa, threshold |-> th])

StatisticsCollectorParameters(st, ag, cl, qp) ==
    Instance("StatisticsCollectorParameters",
             [statistics_type |-> st, aggregator_type |-> ag,
              clipping_value |-> cl, quantile_outlier_prob |-> qp])

RangeEstimatorParameters(mn, mx) ==
    Instance("RangeEstimatorParameters", [min |-> mn, max |-> mx])

AdvancedAccuracyRestorerParameters(mi, th, cm, rs) ==
    Instance("AdvancedAccuracyRestorerParameters",
             [max_num_iterations |-> mi, tune_hyperparams |-> th,
              convert_to_mixed_preset |-> cm, ranking_subset_size |-> rs])

DefaultQuantizationParameters == QuantizationParameters(None, None, None, None, None)

DefaultBiasCorrectionParameters == AdvancedBiasCorrectionParameters(PyBool(FALSE), None)

\* statistics_type, aggregator_type and clipping_value default to None,
\* quantile_outlier_prob to 1e-4
DefaultStatisticsCollectorParameters ==
    StatisticsCollectorParameters(None, None, None, PyFloat(1))

DefaultRangeEstimatorParameters ==
    RangeEstimatorParameters(DefaultStatisticsCollectorParameters,
                             DefaultStatisticsCollectorParameters)

DefaultAdvancedQuantizationParameters ==
    Instance("AdvancedQuantizationParameters",
             [overflow_fix |-> Member("OverflowFix", "FIRST_LAYER"),
              quantize_outputs |-> PyBool(FALSE),
              inplace_statistics |-> PyBool(TRUE),
              disable_bias_correction |-> PyBool(FALSE),
              activations_quantization_params |-> DefaultQuantizationParameters,
              weights_quantization_params |-> DefaultQuantizationParameters,
              activations_range_estimator_params |-> DefaultRangeEstimatorParameters,
              weights_range_estimator_params |-> DefaultRangeEstimatorParameters,
              bias_correction_params |-> DefaultBiasCorrectionParameters,
              backend_params |-> PyDict(EmptyDict)])

DefaultAccuracyRestorerParameters ==
    AdvancedAccuracyRestorerParameters(SysMaxsize, PyBool(FALSE), PyBool(FALSE), None)

----------------------------------------------------------------------------
(* changes_asdict *)

\* the loop of changes_asdict over fields(params)[i..]: a field whose value
\* is not None is stored under its name, verbatim
RECURSIVE changes_loop(_, _, _)
changes_loop(obj, i, changes) ==
    IF i > Len(Fields(obj.t)) THEN changes
    ELSE LET name == Fields(obj.t)[i]
             value == GetAttr(obj, name)
         IN changes_loop(obj, i + 1,
                         IF value # None THEN SetItem(changes, name, value)
                         ELSE changes)

\* "if value:" in place of "if value is not None:": a falsy value is dropped
changes_asdict_truthy(obj) ==
    Returned(PyDict([n \in {m \in FieldSet(obj.t) :
                              GetAttr(obj, m) \notin {None, PyBool(FALSE), PyInt(0), PyFloat(0)}}
                     |-> GetAttr(obj, n)]))

changes_asdict(obj) == Returned(PyDict(changes_loop(obj, 1, EmptyDict)))

----------------------------------------------------------------------------
(* convert_to_dict_recursively *)

\* the three statements of the loop body, in order: the nested mapping for a
\* dataclass, the primitive for an Enum member, then the unconditional
\* result[f.name] = value
RECURSIVE convert_to_dict_recursively(_)
RECURSIVE recursive_loop(_, _, _)
store_field(result, name, value) ==
    LET r1 == IF IsDataclass(value)
              THEN SetItem(result, name, convert_to_dict_recursively(value).value)
              ELSE result
        r2 == IF IsEnum(value) THEN SetItem(r1, name, EnumValue(value)) ELSE r1
    IN SetItem(r2, name, value)

recursive_loop(obj, i, result) ==
    IF i > Len(Fields(obj.t)) THEN result
    ELSE LET name == Fields(obj.t)[i]
         IN recursive_loop(obj, i + 1, store_field(result, name, GetAttr(obj, name)))

convert_to_dict_recursively(obj) ==
    IF obj = None THEN Returned(PyDict(EmptyDict))
    ELSE Returned(PyDict(recursive_loop(obj, 1, EmptyDict)))

----------------------------------------------------------------------------
(* convert_quantization_parameters_to_dict *)

NarrowRangeMsg == "narrow_range parameter is not supported in the legacy format"

\* "if params.<name>:" in place of "is not None": a falsy value is dropped
copy_if_truthy(result, obj, name, key) ==
    IF GetAttr(obj, name) \notin {None, PyBool(FALSE), PyInt(0)}
    THEN SetItem(result, key, GetAttr(obj, name))
    ELSE result

\* result[key] = params.<name> when the field is not None
copy_if_set(result, obj, name, key) ==
    IF GetAttr(obj, name) # None THEN SetItem(result, key, GetAttr(obj, name))
    ELSE result

convert_quantization_parameters_to_dict(obj) ==
    LET r1 == copy_if_set(EmptyDict, obj, "num_bits", "bits")
        r2 == copy_if_set(r1, obj, "mode", "mode")
        r3 == copy_if_set(r2, obj, "signedness_to_force", "signed")
        r4 == copy_if_set(r3, obj, "per_channel", "per_channel")
    IN IF GetAttr(obj, "narrow_range") # None
       THEN Raised("RuntimeError", NarrowRangeMsg)
       ELSE Returned(PyDict(r4))

----------------------------------------------------------------------------
(* convert_range_estimator_parameters_to_dict *)

ClippingValueMsg == "clipping_value parameter is not supported in the legacy format"
\* the literal part of the message of line 270; the code appends str(params)
RangeEstimatorMsg == "The following range estimator parameters are not supported: "

NoneOperandMsg == "unsupported operand type(s) for -: 'int' and 'NoneType'"

\* 1 - p on floats counted in ten-thousandths; TypeError when p is None
OneMinus(p) ==
    IF p = None THEN Raised("TypeError", NoneOperandMsg)
    ELSE Returned(PyFloat(10000 - p.v))

\* one side's (statistics_type, aggregator_type) against a pair of members
side_is(side, st, ag) ==
    /\ GetAttr(side, "statistics_type") = Member("StatisticsType", st)
    /\ GetAttr(side, "aggregator_type") = Member("AggregatorType", ag)

\* lines 264-268: the mean_percentile preset; the two subtractions are
\* evaluated min side first
mean_percentile(mn, mx) ==
    LET lo == OneMinus(GetAttr(mn, "quantile_outlier_prob"))
    IN IF lo.status = "raised" THEN lo ELSE
    LET hi == OneMinus(GetAttr(mx, "quantile_outlier_prob"))
    IN IF hi.status = "raised" THEN hi ELSE
    Returned(PyDict(
        SetItem(SetItem(EmptyDict, "type", PyStr("mean_percentile")),
                "params",
                PyDict(SetItem(SetItem(EmptyDict, "min_percentile", lo.value),
                               "max_percentile", hi.value)))))

\* the clipping_value check moved after the classification
convert_range_estimator_classify_first(obj) ==
    LET mn == GetAttr(obj, "min")
        mx == GetAttr(obj, "max")
        clipped == GetAttr(mn, "clipping_value") # None \/ GetAttr(mx, "clipping_value") # None
    IN IF side_is(mn, "MIN", "MIN") /\ side_is(mx, "MAX", "MAX")
       THEN IF clipped THEN Raised("RuntimeError", ClippingValueMsg)
            ELSE Returned(PyDict(SetItem(EmptyDict, "type", PyStr("mixed_min_max"))))
       ELSE IF side_is(mn, "MIN", "MEAN") /\ side_is(mx, "MAX", "MEAN")
       THEN IF clipped THEN Raised("RuntimeError", ClippingValueMsg)
            ELSE Returned(PyDict(SetItem(EmptyDict, "type", PyStr("mean_min_max"))))
       ELSE IF side_is(mn, "QUANTILE", "MEAN") /\ side_is(mx, "QUANTILE", "MEAN")
       THEN IF clipped THEN Raised("RuntimeError", ClippingValueMsg)
            ELSE mean_percentile(mn, mx)
       ELSE Raised("RuntimeError", RangeEstimatorMsg)

convert_range_estimator_parameters_to_dict(obj) ==
    LET mn == GetAttr(obj, "min")
        mx == GetAttr(obj, "max")
    IN IF GetAttr(mn, "clipping_value") # None \/ GetAttr(mx, "clipping_value") # None
       THEN Raised("RuntimeError", ClippingValueMsg)
       ELSE IF side_is(mn, "MIN", "MIN") /\ side_is(mx, "MAX", "MAX")
       THEN Returned(PyDict(SetItem(EmptyDict, "type", PyStr("mixed_min_max"))))
       ELSE IF side_is(mn, "MIN", "MEAN") /\ side_is(mx, "MAX", "MEAN")
       THEN Returned(PyDict(SetItem(EmptyDict, "type", PyStr("mean_min_max"))))
       ELSE IF side_is(mn, "QUANTILE", "MEAN") /\ side_is(mx, "QUANTILE", "MEAN")
       THEN mean_percentile(mn, mx)
       ELSE Raised("RuntimeError", RangeEstimatorMsg)

----------------------------------------------------------------------------
(* convert_advanced_parameters_to_dict *)

ApplyForAllNodesMsg ==
    "apply_for_all_nodes parameter of the BiasCorrection algorithm is not supported in the legacy format"
ThresholdMsg ==
    "threshold parameter of the BiasCorrection algorithm is not supported in the legacy format"

\* the attribute names the function reads the two range estimators from
ActivationsRangeAttr == "activations_range_estimator_params"
WeightsRangeAttr == "weigths_range_estimator_params"

\* lines 282-288: the general options
general_config(obj) ==
    LET r0 == SetItem(SetItem(EmptyDict, "overflow_fix",
                              EnumValue(GetAttr(obj, "overflow_fix"))),
                      "quantize_outputs", GetAttr(obj, "quantize_outputs"))
    IN IF GetAttr(obj, "disable_bias_correction").v
       THEN SetItem(r0, "batchnorm_adaptation",
                    PyDict(SetItem(EmptyDict, "num_bn_adaptation_samples", PyInt(0))))
       ELSE r0

\* if config: result[key] = config
attach_if_nonempty(result, key, config) ==
    IF Truthy(config.v) THEN SetItem(result, key, config) ELSE result

\* a range preset tagged with its quantizer group and the match-all scope
tagged(config, group) ==
    PyDict(SetItem(SetItem(config.v, "target_quantizer_group", PyStr(group)),
                   "target_scopes", PyStr("{re}.*")))

\* lines 302-308: result["initializer"]["range"] = [activations, weights];
\* the subscript result["initializer"] reads a key of result
attach_init_range(result, act, wgt) ==
    IF Truthy(act.v) \/ Truthy(wgt.v)
    THEN IF "initializer" \notin DOMAIN result
         THEN Raised("KeyError", "initializer")
         ELSE Returned(PyDict(SetItem(result, "initializer",
                  PyDict(SetItem(result["initializer"].v, "range",
                                 PyList(<<tagged(act, "activations"),
                                          tagged(wgt, "weights")>>))))))
    ELSE Returned(PyDict(result))

\* lines 310-318: the bias correction checks and the return
check_bias_correction(obj, result) ==
    LET bc == GetAttr(obj, "bias_correction_params")
    IN IF GetAttr(bc, "apply_for_all_nodes").v
       THEN Raised("RuntimeError", ApplyForAllNodesMsg)
       ELSE IF GetAttr(bc, "threshold") # None
       THEN Raised("RuntimeError", ThresholdMsg)
       ELSE Returned(result)

\* reading an attribute by name: AttributeError when the object has none
read_attr(obj, name) ==
    IF HasAttr(obj, name) THEN Returned(GetAttr(obj, name))
    ELSE Raised("AttributeError", name)

\* lines 282-296: the general options and the two quantization groups
quantization_configs(obj) ==
    LET r1 == general_config(obj)
        ac == convert_quantization_parameters_to_dict(
                  GetAttr(obj, "activations_quantization_params"))
    IN IF ac.status = "raised" THEN ac ELSE
    LET r2 == attach_if_nonempty(r1, "activations", ac.value)
        wc == convert_quantization_parameters_to_dict(
                  GetAttr(obj, "weights_quantization_params"))
    IN IF wc.status = "raised" THEN wc ELSE
    Returned(PyDict(attach_if_nonempty(r2, "weights", wc.value)))

\* a failure of the quantization groups swallowed: the dictionary built so
\* far is returned in place of the error
convert_advanced_parameters_partial(obj) ==
    LET r3 == quantization_configs(obj)
    IN IF r3.status = "raised" THEN Returned(PyDict(general_config(obj))) ELSE
    LET aa == read_attr(obj, ActivationsRangeAttr)
    IN IF aa.status = "raised" THEN aa ELSE
    LET ar == convert_range_estimator_parameters_to_dict(aa.value)
    IN IF ar.status = "raised" THEN ar ELSE
    LET wa == read_attr(obj, WeightsRangeAttr)
    IN IF wa.status = "raised" THEN wa ELSE
    LET wr == convert_range_estimator_parameters_to_dict(wa.value)
    IN IF wr.status = "raised" THEN wr ELSE
    LET r4 == attach_init_range(r3.value.v, ar.value, wr.value)
    IN IF r4.status = "raised" THEN r4 ELSE
    check_bias_correction(obj, r4.value)

convert_advanced_parameters_to_dict(obj) ==
    LET r3 == quantization_configs(obj)
    IN IF r3.status = "raised" THEN r3 ELSE
    LET aa == read_attr(obj, ActivationsRangeAttr)
    IN IF aa.status = "raised" THEN aa ELSE
    LET ar == convert_range_estimator_parameters_to_dict(aa.value)
    IN IF ar.status = "raised" THEN ar ELSE
    LET wa == read_attr(obj, WeightsRangeAttr)
    IN IF wa.status = "raised" THEN wa ELSE
    LET wr == convert_range_estimator_parameters_to_dict(wa.value)
    IN IF wr.status = "raised" THEN wr ELSE
    LET r4 == attach_init_range(r3.value.v, ar.value, wr.value)
    IN IF r4.status = "raised" THEN r4 ELSE
    check_bias_correction(obj, r4.value)

----------------------------------------------------------------------------
(* Input domains *)

OptionalBool == {None, PyBool(TRUE), PyBool(FALSE)}

\* every QuantizationParameters over three values per field, falsy ones included
QuantizationParametersSet ==
    {QuantizationParameters(nb, md, sg, pc, nr) :
        nb \in {None, PyInt(0), PyInt(8)}, md \in {None} \cup QuantizationMode,
        sg \in OptionalBool, pc \in OptionalBool, nr \in OptionalBool}

BiasCorrectionParametersSet ==
    {AdvancedBiasCorrectionParameters(PyBool(afa), th) :
        afa \in BOOLEAN, th \in {None, PyFloat(0), PyFloat(5000)}}

AccuracyRestorerParametersSet ==
    {AdvancedAccuracyRestorerParameters(mi, PyBool(th), PyBool(cm), rs) :
        mi \in {SysMaxsize, PyInt(0), PyInt(10)}, th \in BOOLEAN, cm \in BOOLEAN,
        rs \in {None, PyInt(0), PyInt(300)}}

StatisticsChoices == {None} \cup {Member("StatisticsType", n) : n \in StatisticsType}
AggregatorChoices == {None} \cup {Member("AggregatorType", n) : n \in AggregatorType}

\* every side over the modelled kinds, a clipping value unset, 0.0 or 0.5 and
\* an outlier probability unset, 1e-4 or 0.01
StatisticsCollectorParametersSet ==
    {StatisticsCollectorParameters(st, ag, cl, qp) :
        st \in StatisticsChoices, ag \in AggregatorChoices,
        cl \in {None, PyFloat(0), PyFloat(5000)},
        qp \in {None, PyFloat(1), PyFloat(100)}}

RangeEstimatorParametersSet ==
    {RangeEstimatorParameters(mn, mx) :
        mn \in StatisticsCollectorParametersSet, mx \in StatisticsCollectorParametersSet}

\* number of fields of a parameter group that are not None
SetFields(obj) == Cardinality({n \in FieldSet(obj.t) : GetAttr(obj, n) # None})

\* the groups a whole configuration is built from: a quantization group with
\* at most one field set or with the four representable fields set; a range
\* estimator that is the default, one of the three legacy presets, the
\* (QUANTILE,MEAN) preset with the min outlier probability unset or the
\* pairing (MIN,MIN)&(QUANTILE,MEAN), as it is or with one side clipped at 0.0
ConfigQuantizationChoices ==
    {q \in QuantizationParametersSet : SetFields(q) <= 1}
    \cup {QuantizationParameters(PyInt(8), PyStr("symmetric"), PyBool(TRUE),
                                 PyBool(FALSE), None)}

Side(st, ag, qp) ==
    StatisticsCollectorParameters(Member("StatisticsType", st),
                                  Member("AggregatorType", ag), None, qp)

ConfigRangeBases ==
    {DefaultRangeEstimatorParameters,
     RangeEstimatorParameters(Side("MIN", "MIN", PyFloat(1)), Side("MAX", "MAX", PyFloat(1))),
     RangeEstimatorParameters(Side("MIN", "MEAN", PyFloat(1)), Side("MAX", "MEAN", PyFloat(1))),
     RangeEstimatorParameters(Side("QUANTILE", "MEAN", PyFloat(100)),
                              Side("QUANTILE", "MEAN", PyFloat(100))),
     RangeEstimatorParameters(Side("QUANTILE", "MEAN", None),
                              Side("QUANTILE", "MEAN", PyFloat(100))),
     RangeEstimatorParameters(Side("MIN", "MIN", PyFloat(1)),
                              Side("QUANTILE", "MEAN", PyFloat(1)))}

ConfigRangeChoices ==
    ConfigRangeBases
    \cup {[b EXCEPT !.v[sd].v["clipping_value"] = PyFloat(0)] :
             b \in ConfigRangeBases, sd \in {"min", "max"}}

BackendParamsChoices ==
    {PyDict(EmptyDict), PyDict(SetItem(EmptyDict, "compress_weights", PyBool(FALSE)))}

\* the values a field of AdvancedQuantizationParameters may be given
FieldChoices(name) ==
    CASE name = "overflow_fix" -> {Member("OverflowFix", n) : n \in OverflowFix}
      [] name \in {"quantize_outputs", "inplace_statistics", "disable_bias_correction"} ->
           {PyBool(TRUE), PyBool(FALSE)}
      [] name \in {"activations_quantization_params", "weights_quantization_params"} ->
           ConfigQuantizationChoices
      [] name \in {"activations_range_estimator_params", "weights_range_estimator_params"} ->
           ConfigRangeChoices
      [] name = "bias_correction_params" -> BiasCorrectionParametersSet
      [] name = "backend_params" -> BackendParamsChoices

\* a configuration is built from the defaults by at most MaxOverrides overrides
MaxOverrides == 3

ConfigFields == Fields("AdvancedQuantizationParameters")

----------------------------------------------------------------------------
(* The state machine: a parameter object is constructed, then one of the  *)
(* functions of the module is applied to it                                *)

Init ==
    /\ params \in QuantizationParametersSet \cup BiasCorrectionParametersSet
                  \cup AccuracyRestorerParametersSet \cup RangeEstimatorParametersSet
                  \cup {DefaultAdvancedQuantizationParameters}
    /\ called = ""
    /\ ret = NoCall
    /\ overrides = 0

\* AdvancedQuantizationParameters(..., <field> = x, ...): the keyword arguments
\* are given in declaration order
Override ==
    /\ called = ""
    /\ params.t = "AdvancedQuantizationParameters"
    /\ overrides < MaxOverrides
    /\ \E i \in 1..Len(ConfigFields) :
         /\ \A j \in (i + 1)..Len(ConfigFields) :
               GetAttr(params, ConfigFields[j]) =
                   GetAttr(DefaultAdvancedQuantizationParameters, ConfigFields[j])
         /\ \E x \in FieldChoices(ConfigFields[i]) :
               /\ x # GetAttr(params, ConfigFields[i])
               /\ GetAttr(params, ConfigFields[i]) =
                      GetAttr(DefaultAdvancedQuantizationParameters, ConfigFields[i])
               /\ params' = [params EXCEPT !.v[ConfigFields[i]] = x]
    /\ overrides' = overrides + 1
    /\ UNCHANGED <<called, ret>>

CallChangesAsdict ==
    /\ called = ""
    /\ called' = "changes_asdict"
    /\ ret' = changes_asdict(params)
    /\ UNCHANGED <<params, overrides>>

CallConvertToDictRecursively ==
    /\ called = ""
    /\ called' = "convert_to_dict_recursively"
    /\ ret' = convert_to_dict_recursively(params)
    /\ UNCHANGED <<params, overrides>>

CallConvertQuantizationParameters ==
    /\ called = ""
    /\ params.t = "QuantizationParameters"
    /\ called' = "convert_quantization_parameters_to_dict"
    /\ ret' = convert_quantization_parameters_to_dict(params)
    /\ UNCHANGED <<params, overrides>>

CallConvertRangeEstimatorParameters ==
    /\ called = ""
    /\ params.t = "RangeEstimatorParameters"
    /\ called' = "convert_range_estimator_parameters_to_dict"
    /\ ret' = convert_range_estimator_parameters_to_dict(params)
    /\ UNCHANGED <<params, overrides>>

CallConvertAdvancedParameters ==
    /\ called = ""
    /\ params.t = "AdvancedQuantizationParameters"
    /\ called' = "convert_advanced_parameters_to_dict"
    /\ ret' = convert_advanced_parameters_to_dict(params)
    /\ UNCHANGED <<params, overrides>>

Next ==
    \/ Override
    \/ CallChangesAsdict
    \/ CallConvertToDictRecursively
    \/ CallConvertQuantizationParameters
    \/ CallConvertRangeEstimatorParameters
    \/ CallConvertAdvancedParameters

Spec == Init /\ [][Next]_vars

----------------------------------------------------------------------------
(* Properties.  The expectations below are written from the documented     *)
(* mapping rules, independently of the operators that model the code.      *)

QuantizationFields == {"activations_quantization_params", "weights_quantization_params"}
RangeFields == {"activations_range_estimator_params", "weights_range_estimator_params"}

Translated == called = "convert_advanced_parameters_to_dict"

\* narrow_range of a quantization group is set (to true or to false)
NarrowRangeSet(q) == q.v.narrow_range # None

\* a clipping_value of a range estimator is non-null, on either side
Clipped(r) == r.v.min.v.clipping_value # None \/ r.v.max.v.clipping_value # None

\* the configuration holds a value the legacy format cannot represent
Unrepresentable(cfg) ==
    \/ \E g \in QuantizationFields : NarrowRangeSet(cfg.v[g])
    \/ \E g \in RangeFields : Clipped(cfg.v[g])
    \/ cfg.v.bias_correction_params.v.apply_for_all_nodes = PyBool(TRUE)
    \/ cfg.v.bias_correction_params.v.threshold # None

\* the two declared validation error kinds
UnsupportedFieldError(r) ==
    /\ r.status = "raised"
    /\ r.exc = "RuntimeError"
    /\ r.msg \in {NarrowRangeMsg, ClippingValueMsg, ApplyForAllNodesMsg, ThresholdMsg}

UnsupportedCombinationError(r) ==
    /\ r.status = "raised"
    /\ r.exc = "RuntimeError"
    /\ r.msg = RangeEstimatorMsg

\* the joint (min.statistics_type, min.aggregator_type, max.statistics_type,
\* max.aggregator_type) tuple, by member name
KindName(x) == IF x = None THEN "unset" ELSE x.v

Tuple(r) == <<KindName(r.v.min.v.statistics_type), KindName(r.v.min.v.aggregator_type),
              KindName(r.v.max.v.statistics_type), KindName(r.v.max.v.aggregator_type)>>

MatchesPreset(r) ==
    Tuple(r) \in {<<"MIN", "MIN", "MAX", "MAX">>, <<"MIN", "MEAN", "MAX", "MEAN">>,
                  <<"QUANTILE", "MEAN", "QUANTILE", "MEAN">>}

\* the preset the decision table gives a range estimator that matches one
ExpectedPreset(r) ==
    CASE Tuple(r) = <<"MIN", "MIN", "MAX", "MAX">> -> [type |-> PyStr("mixed_min_max")]
      [] Tuple(r) = <<"MIN", "MEAN", "MAX", "MEAN">> -> [type |-> PyStr("mean_min_max")]
      [] Tuple(r) = <<"QUANTILE", "MEAN", "QUANTILE", "MEAN">> ->
           [type |-> PyStr("mean_percentile"),
            params |-> PyDict(
                [min_percentile |-> PyFloat(10000 - r.v.min.v.quantile_outlier_prob.v),
                 max_percentile |-> PyFloat(10000 - r.v.max.v.quantile_outlier_prob.v)])]

\* C1: translating a configuration that holds an unrepresentable value ends
\* in failure and returns no dictionary, neither complete nor partial
C1_UnrepresentableFails ==
    (Translated /\ Unrepresentable(params)) =>
        (ret.status = "raised" /\ ret.value = NoValue)

\* C1 witness: a configuration with apply_for_all_nodes = true and a threshold
\* was translated and the translation failed
C1_Witness ==
    /\ Translated
    /\ params.v.bias_correction_params.v.apply_for_all_nodes = PyBool(TRUE)
    /\ params.v.bias_correction_params.v.threshold # None
    /\ ret.status = "raised"

\* both outlier probabilities are set, so that 1 - probability is a number
ProbabilitiesSet(r) ==
    /\ r.v.min.v.quantile_outlier_prob # None
    /\ r.v.max.v.quantile_outlier_prob # None

\* C2: with both clipping values null the range estimator conversion is the
\* decision table: each of the three recognised tuples yields a dictionary
\* of its type, exactly {type} for the first two and with the percentiles
\* 1 - quantile_outlier_prob for (QUANTILE,MEAN)&(QUANTILE,MEAN); every
\* other tuple fails with the unsupported-combination error and no
\* dictionary
C2_DecisionTable ==
    (called = "convert_range_estimator_parameters_to_dict" /\ ~Clipped(params)) =>
        IF MatchesPreset(params)
        THEN /\ ret.status = "returned"
             /\ ret.value.v["type"] = ExpectedPreset(params).type
             /\ (Tuple(params) = <<"QUANTILE", "MEAN", "QUANTILE", "MEAN">>
                    => ProbabilitiesSet(params))
                  => ret = Returned(PyDict(ExpectedPreset(params)))
        ELSE UnsupportedCombinationError(ret) /\ ret.value = NoValue

\* C3: every translation either returns a dictionary or fails with one of the
\* two validation error kinds (unsupported field, unsupported combination)
C3_OnlyValidationErrors ==
    Translated =>
        \/ ret.status = "returned"
        \/ UnsupportedFieldError(ret)
        \/ UnsupportedCombinationError(ret)

\* the two presets of initializer -> range for a configuration
ExpectedRange(cfg) ==
    PyList(<<PyDict([target_quantizer_group |-> PyStr("activations"),
                     target_scopes |-> PyStr("{re}.*")]
                    @@ ExpectedPreset(cfg.v.activations_range_estimator_params)),
             PyDict([target_quantizer_group |-> PyStr("weights"),
                     target_scopes |-> PyStr("{re}.*")]
                    @@ ExpectedPreset(cfg.v.weights_range_estimator_params))>>)

\* both range estimators match a preset and no value is unrepresentable
Translatable(cfg) ==
    /\ ~Unrepresentable(cfg)
    /\ \A g \in RangeFields : MatchesPreset(cfg.v[g])

\* C4: translating a configuration with no unrepresentable value whose two
\* range estimators match a preset succeeds, and initializer -> range is the
\* list [activation preset, weight preset], each tagged with its group and
\* the match-all scope
C4_InitializerRange ==
    (Translated /\ Translatable(params)) =>
        /\ ret.status = "returned"
        /\ "initializer" \in DOMAIN ret.value.v
        /\ ret.value.v["initializer"] = PyDict([range |-> ExpectedRange(params)])

\* the legacy name of a representable quantization field
LegacyName(f) ==
    CASE f = "num_bits" -> "bits"
      [] f = "mode" -> "mode"
      [] f = "signedness_to_force" -> "signed"
      [] f = "per_channel" -> "per_channel"

RepresentableFields == {"num_bits", "mode", "signedness_to_force", "per_channel"}

\* the legacy mapping of a quantization group: its set fields under their
\* legacy names, the values verbatim
ExpectedLegacy(q) ==
    LET set == {f \in RepresentableFields : q.v[f] # None}
    IN [k \in {LegacyName(f) : f \in set} |->
           q.v[CHOOSE f \in set : LegacyName(f) = k]]

\* C5: convert_quantization_parameters_to_dict returns exactly the set fields
\* under their legacy names with the values verbatim (false and 0 included,
\* the empty mapping when nothing is set) when narrow_range is unset, and
\* fails with no value when narrow_range is set to anything; the translation
\* attaches the sub-mapping under "activations" / "weights" only when it is
\* non-empty (checked on the dictionary built by lines 282-296)
C5_QuantizationMapping ==
    /\ called = "convert_quantization_parameters_to_dict" =>
          IF NarrowRangeSet(params)
          THEN ret.status = "raised" /\ ret.value = NoValue
          ELSE ret = Returned(PyDict(ExpectedLegacy(params)))
    /\ (Translated /\ \A g \in QuantizationFields : ~NarrowRangeSet(params.v[g])) =>
          LET built == quantization_configs(params)
              agroup == params.v.activations_quantization_params
              wgroup == params.v.weights_quantization_params
          IN /\ built.status = "returned"
             /\ ("activations" \in DOMAIN built.value.v) <=> (ExpectedLegacy(agroup) # EmptyDict)
             /\ ("weights" \in DOMAIN built.value.v) <=> (ExpectedLegacy(wgroup) # EmptyDict)
             /\ ("activations" \in DOMAIN built.value.v) =>
                    built.value.v["activations"] = PyDict(ExpectedLegacy(agroup))
             /\ ("weights" \in DOMAIN built.value.v) =>
                    built.value.v["weights"] = PyDict(ExpectedLegacy(wgroup))

\* C5 witness: a group with num_bits = 0 and per_channel = false and no
\* narrow_range was converted, and both falsy values are in the mapping
C5_Witness ==
    /\ called = "convert_quantization_parameters_to_dict"
    /\ params.v.num_bits = PyInt(0)
    /\ params.v.per_channel = PyBool(FALSE)
    /\ ~NarrowRangeSet(params)
    /\ ret.status = "returned"
    /\ {"bits", "per_channel"} \subseteq DOMAIN ret.value.v

\* what convert_to_dict_recursively is to store: the primitive of an Enum
\* member, the nested mapping of a nested group, any other value unchanged
RECURSIVE ExpectedRecursive(_)
ExpectedRecursive(obj) ==
    [n \in FieldSet(obj.t) |->
        LET x == obj.v[n]
        IN IF IsDataclass(x) THEN PyDict(ExpectedRecursive(x))
           ELSE IF IsEnum(x) THEN EnumValue(x)
           ELSE x]


ParameterGroups == {"QuantizationParameters", "AdvancedBiasCorrectionParameters",
                    "AdvancedQuantizationParameters",
                    "AdvancedAccuracyRestorerParameters"}

\* the instance a class constructs from its defaults
DefaultOf(cls) ==
    CASE cls = "QuantizationParameters" -> DefaultQuantizationParameters
      [] cls = "AdvancedBiasCorrectionParameters" -> DefaultBiasCorrectionParameters
      [] cls = "AdvancedQuantizationParameters" -> DefaultAdvancedQuantizationParameters
      [] cls = "AdvancedAccuracyRestorerParameters" -> DefaultAccuracyRestorerParameters

\* C6: convert_to_dict_recursively applied to a parameter group returns one
\* key per declared field, an Enum member stored as its primitive value, a
\* nested group as its nested mapping, every other value unchanged
C6_ConvertedValuesStored ==
    (called = "convert_to_dict_recursively" /\ params.t \in ParameterGroups) =>
        ret = Returned(PyDict(ExpectedRecursive(params)))

\* the fields of a group that are not None, each with its value verbatim
ExpectedChanges(obj) ==
    [n \in {m \in FieldSet(obj.t) : obj.v[m] # None} |-> obj.v[n]]

ChangesExtracted == called = "changes_asdict" /\ params.t \in ParameterGroups

\* C7 as stated: the keys of changes_asdict are exactly the fields that are
\* not None, the values verbatim, and a fully-default group yields the empty
\* mapping
C7_DefaultGroupEmpty ==
    ChangesExtracted =>
        /\ ret = Returned(PyDict(ExpectedChanges(params)))
        /\ params = DefaultOf(params.t) => ret.value.v = EmptyDict

\* C7 amended: the keys of changes_asdict are exactly the fields that are not
\* None, the values verbatim and unconverted, falsy values kept; a
\* fully-default group yields exactly its fields whose default is not None,
\* which is the empty mapping for QuantizationParameters alone
C7_NonNoneFields ==
    ChangesExtracted =>
        /\ ret = Returned(PyDict(ExpectedChanges(params)))
        /\ params = DefaultOf(params.t) =>
              (ret.value.v = EmptyDict <=> params.t = "QuantizationParameters")
        /\ params = DefaultBiasCorrectionParameters =>
              ret.value.v = [apply_for_all_nodes |-> PyBool(FALSE)]

\* C7 witness: changes_asdict was applied to a bias correction group with
\* apply_for_all_nodes = false and threshold = 0.0 and kept both
C7_Witness ==
    /\ ChangesExtracted
    /\ params = AdvancedBiasCorrectionParameters(PyBool(FALSE), PyFloat(0))
    /\ ret.status = "returned"
    /\ DOMAIN ret.value.v = {"apply_for_all_nodes", "threshold"}

BiasCorrectionDisabled(cfg) == cfg.v.disable_bias_correction = PyBool(TRUE)

\* C8: whenever the translation returns a dictionary, the dictionary holds
\* batchnorm_adaptation = {num_bn_adaptation_samples: 0} when
\* disable_bias_correction is true and has no batchnorm_adaptation key when
\* it is false
C8_BatchnormAdaptation ==
    (Translated /\ ret.status = "returned") =>
        /\ BiasCorrectionDisabled(params) =>
              /\ "batchnorm_adaptation" \in DOMAIN ret.value.v
              /\ ret.value.v["batchnorm_adaptation"] =
                     PyDict([num_bn_adaptation_samples |-> PyInt(0)])
        /\ ~BiasCorrectionDisabled(params) =>
              "batchnorm_adaptation" \notin DOMAIN ret.value.v

LegacyKeys == {"overflow_fix", "quantize_outputs", "batchnorm_adaptation",
               "activations", "weights", "initializer"}

\* the primitive string of an overflow fix mode
ModeString(m) ==
    CASE m.v = "ENABLE" -> PyStr("enable")
      [] m.v = "FIRST_LAYER" -> PyStr("first_layer_only")
      [] m.v = "DISABLE" -> PyStr("disable")

\* C9: whenever the translation returns a dictionary, the dictionary holds
\* overflow_fix as the primitive string of the mode and quantize_outputs as
\* the configured boolean, and has no top-level key outside the legacy
\* keys: nothing of backend_params or inplace_statistics appears
C9_LegacyKeysOnly ==
    (Translated /\ ret.status = "returned") =>
        /\ {"overflow_fix", "quantize_outputs"} \subseteq DOMAIN ret.value.v
        /\ ret.value.v["overflow_fix"] = ModeString(params.v.overflow_fix)
        /\ ret.value.v["quantize_outputs"] = params.v.quantize_outputs
        /\ DOMAIN ret.value.v \subseteq LegacyKeys

\* the case C8 and C9 speak of: the translation has returned a dictionary
TranslationReturned == Translated /\ ret.status = "returned"

\* C10: a non-null clipping_value on either side makes the range estimator
\* conversion fail with the clipping_value error whatever the tuple is,
\* whether it matches a preset or not
C10_ClippingFirst ==
    (called = "convert_range_estimator_parameters_to_dict" /\ Clipped(params)) =>
        ret = Raised("RuntimeError", ClippingValueMsg)

\* C10 witness: a range estimator clipped on its max side only, whose tuple
\* matches no preset, was converted and failed with the clipping_value error
C10_Witness ==
    /\ called = "convert_range_estimator_parameters_to_dict"
    /\ params.v.min.v.clipping_value = None
    /\ params.v.max.v.clipping_value # None
    /\ ~MatchesPreset(params)
    /\ ret.msg = ClippingValueMsg

\* only overflow_fix, quantize_outputs and disable_bias_correction may differ
\* from the defaults: the quantization groups, the range estimators and the
\* bias correction group are the default ones
GeneralOptionsOnly(cfg) ==
    \A n \in FieldSet("AdvancedQuantizationParameters")
             \ {"overflow_fix", "quantize_outputs", "disable_bias_correction"} :
        cfg.v[n] = DefaultAdvancedQuantizationParameters.v[n]

\* the legacy dictionary of the general options alone
ExpectedGeneral(cfg) ==
    IF BiasCorrectionDisabled(cfg)
    THEN [overflow_fix |-> ModeString(cfg.v.overflow_fix),
          quantize_outputs |-> cfg.v.quantize_outputs,
          batchnorm_adaptation |-> PyDict([num_bn_adaptation_samples |-> PyInt(0)])]
    ELSE [overflow_fix |-> ModeString(cfg.v.overflow_fix),
          quantize_outputs |-> cfg.v.quantize_outputs]

\* C11: a configuration in which only general options are set and every
\* group is left at its defaults is translated successfully, and the result
\* is exactly overflow_fix, quantize_outputs and, when disable_bias_correction
\* is true, batchnorm_adaptation: no activations, weights or initializer key
C11_DefaultGroupsTranslate ==
    (Translated /\ GeneralOptionsOnly(params)) =>
        ret = Returned(PyDict(ExpectedGeneral(params)))

====
